---- MODULE Spec2Model ----
(***************************************************************************)
(* Model of src/main.py: a FastAPI service that authenticates users with   *)
(* a password, issues HS256-signed expiring bearer tokens, and gates CRUD  *)
(* operations on an in-memory list of workouts by stored permissions.      *)
(*                                                                         *)
(* Time is counted in ticks; TicksPerSec ticks make one second, so that    *)
(* the sub-second part of datetime.utcnow() and its truncation to whole    *)
(* seconds by the token codec are both visible.                            *)
(***************************************************************************)
EXTENDS Integers, Sequences, FiniteSets, TLC

VARIABLES now, SECRET_KEY, users_db, workouts_db, held, minted, req, resp,
          tasks, running

\* the event loop: the handler coroutines in flight and the one that runs
loop == <<tasks, running>>

vars == <<now, SECRET_KEY, users_db, workouts_db, held, minted, req, resp,
          loop>>

(***************************************************************************)
(* Bounds of the model.                                                    *)
(***************************************************************************)
TicksPerSec == 2
SecPerMin == 1
MaxKeys == 2
MaxWorkouts == 2
MaxExercises == 1
MaxStoreExercises == 2
MaxConc == 2

(***************************************************************************)
(* Program constants.                                                      *)
(***************************************************************************)
ACCESS_TOKEN_EXPIRE_MINUTES == 5
DEFAULT_EXPIRE_MINUTES == 15
HTTP_200_OK == 200
HTTP_201_CREATED == 201
HTTP_204_NO_CONTENT == 204
HTTP_401_UNAUTHORIZED == 401
HTTP_403_FORBIDDEN == 403
HTTP_404_NOT_FOUND == 404
HTTP_500_INTERNAL_SERVER_ERROR == 500

\* timedelta(minutes=m), in ticks
timedelta_minutes(m) == m * SecPerMin * TicksPerSec

\* the clock is followed until a token issued by login at any time of the
\* first second has expired
MaxTime == timedelta_minutes(ACCESS_TOKEN_EXPIRE_MINUTES) + 2 * TicksPerSec - 1
MaxSec == MaxTime \div TicksPerSec

Absent == "~absent"
Keys == 1..MaxKeys

(***************************************************************************)
(* Credential store and password verifier.                                 *)
(***************************************************************************)
\* bcrypt, symbolically: the hash of a password is the password under a tag
bcrypt(plain) == <<"$2b$12$", plain>>

InitUsersDb ==
  [u \in {"admin", "user"} |->
     [username |-> u,
      hashed_password |-> bcrypt("secret"),
      permissions |-> IF u = "admin" THEN <<"READ", "WRITE", "DELETE">>
                                      ELSE <<"READ">>]]

NoUser == [username |-> Absent, hashed_password |-> <<>>, permissions |-> <<>>]

verify_password(plain_password, hashed_password) ==
  hashed_password = bcrypt(plain_password)

get_user(db, username) ==
  IF username \in DOMAIN db THEN db[username] ELSE NoUser

\* mutant: "and" for "or" in the failure test
authenticate_user_and(db, username, password) ==
  LET user == get_user(db, username) IN
  IF user = NoUser /\ ~verify_password(password, user.hashed_password)
    THEN NoUser
    ELSE user

\* returns NoUser for Python's False
authenticate_user(db, username, password) ==
  LET user == get_user(db, username) IN
  IF user = NoUser \/ ~verify_password(password, user.hashed_password)
    THEN NoUser
    ELSE user

(***************************************************************************)
(* Token codec (python-jose, HS256).                                       *)
(***************************************************************************)
NoClaims == [sub |-> Absent, permissions |-> <<>>, exp |-> 0]

\* HMAC-SHA256 taken as collision free: a signature names the key and the
\* exact claims it was computed over.  Key 0 is no key at all.
HMAC(key, claims) == [key |-> key, over |-> claims]
NoSig == HMAC(0, NoClaims)

\* calendar.timegm(dt.utctimetuple()): a datetime truncated to whole seconds
timegm(dt) == dt \div TicksPerSec

\* mutant: the permissions list comes out of the encoder in reverse order
jwt_encode_reordering(claims, key) ==
  LET n == Len(claims.permissions)
      payload == [claims EXCEPT
                    !.exp = timegm(claims.exp),
                    !.permissions = [i \in 1..n |-> claims.permissions[n + 1 - i]]]
  IN [form |-> "jws", payload |-> payload, sig |-> HMAC(key, payload)]

\* jwt.encode: a datetime exp claim is replaced by its integer timestamp,
\* then header.payload is signed
jwt_encode(claims, key) ==
  LET payload == [claims EXCEPT !.exp = timegm(claims.exp)] IN
  [form |-> "jws", payload |-> payload, sig |-> HMAC(key, payload)]

\* mutant: the signature is not verified
jwt_decode_unverified(token, key, t) ==
  IF token.form # "jws"
    THEN [ok |-> FALSE, error |-> "JWTError", payload |-> NoClaims]
  ELSE IF token.payload.exp < timegm(t)
    THEN [ok |-> FALSE, error |-> "ExpiredSignatureError", payload |-> NoClaims]
  ELSE [ok |-> TRUE, error |-> "", payload |-> token.payload]

\* mutant: the expiry is not checked
jwt_decode_no_expiry(token, key, t) ==
  IF token.form # "jws"
    THEN [ok |-> FALSE, error |-> "JWTError", payload |-> NoClaims]
  ELSE IF token.sig # HMAC(key, token.payload)
    THEN [ok |-> FALSE, error |-> "JWTError", payload |-> NoClaims]
  ELSE [ok |-> TRUE, error |-> "", payload |-> token.payload]

\* mutant: the token is rejected from the instant of its expiry on
jwt_decode_at_or_past(token, key, t) ==
  IF token.form # "jws"
    THEN [ok |-> FALSE, error |-> "JWTError", payload |-> NoClaims]
  ELSE IF token.sig # HMAC(key, token.payload)
    THEN [ok |-> FALSE, error |-> "JWTError", payload |-> NoClaims]
  ELSE IF token.payload.exp <= timegm(t)
    THEN [ok |-> FALSE, error |-> "ExpiredSignatureError", payload |-> NoClaims]
  ELSE [ok |-> TRUE, error |-> "", payload |-> token.payload]

\* mutant: the signature is verified against the claims but not against the
\* process's own key
jwt_decode_key_blind(token, key, t) ==
  IF token.form # "jws"
    THEN [ok |-> FALSE, error |-> "JWTError", payload |-> NoClaims]
  ELSE IF token.sig.over # token.payload \/ token.sig.key = 0
    THEN [ok |-> FALSE, error |-> "JWTError", payload |-> NoClaims]
  ELSE IF token.payload.exp < timegm(t)
    THEN [ok |-> FALSE, error |-> "ExpiredSignatureError", payload |-> NoClaims]
  ELSE [ok |-> TRUE, error |-> "", payload |-> token.payload]

\* jwt.decode: structure, then signature, then expiry (exp < now rejects)
jwt_decode(token, key, t) ==
  IF token.form # "jws"
    THEN [ok |-> FALSE, error |-> "JWTError", payload |-> NoClaims]
  ELSE IF token.sig # HMAC(key, token.payload)
    THEN [ok |-> FALSE, error |-> "JWTError", payload |-> NoClaims]
  ELSE IF token.payload.exp < timegm(t)
    THEN [ok |-> FALSE, error |-> "ExpiredSignatureError", payload |-> NoClaims]
  ELSE [ok |-> TRUE, error |-> "", payload |-> token.payload]

\* expires_delta is <<>> for None and <<d>> for a timedelta of d ticks;
\* "expires_delta or timedelta(minutes=15)" takes the fallback for every falsy
\* value, and timedelta(0) is falsy
effective_delta(expires_delta) ==
  IF expires_delta = <<>> \/ expires_delta[1] = 0
    THEN timedelta_minutes(DEFAULT_EXPIRE_MINUTES)
    ELSE expires_delta[1]

\* the claim set handed to jwt.encode (exp still a datetime)
to_encode_of(data, expires_delta, t) ==
  [sub |-> data.sub, permissions |-> data.permissions,
   exp |-> t + effective_delta(expires_delta)]

create_access_token(data, expires_delta, key, t) ==
  jwt_encode(to_encode_of(data, expires_delta, t), key)

(***************************************************************************)
(* Access gate.                                                            *)
(***************************************************************************)
Bearer == {<<"WWW-Authenticate", "Bearer">>}

credentials_exception ==
  [status |-> HTTP_401_UNAUTHORIZED,
   detail |-> <<"Could not validate credentials">>,
   headers |-> Bearer]

\* mutant: the identity carries the permissions of the token's claim
get_current_user_trusting_token(token, key, db, t) ==
  LET d == jwt_decode(token, key, t) IN
  IF ~d.ok
    THEN [ok |-> FALSE, user |-> NoUser, error |-> credentials_exception]
  ELSE IF d.payload.sub = Absent
    THEN [ok |-> FALSE, user |-> NoUser, error |-> credentials_exception]
  ELSE LET user == get_user(db, d.payload.sub) IN
       IF user = NoUser
         THEN [ok |-> FALSE, user |-> NoUser, error |-> credentials_exception]
         ELSE [ok |-> TRUE,
               user |-> [user EXCEPT !.permissions = d.payload.permissions],
               error |-> credentials_exception]

\* mutant: a subject missing from the store is let through to the
\* permission check
get_current_user_unknown_subject(token, key, db, t) ==
  LET d == jwt_decode(token, key, t) IN
  IF ~d.ok
    THEN [ok |-> FALSE, user |-> NoUser, error |-> credentials_exception]
  ELSE IF d.payload.sub = Absent
    THEN [ok |-> FALSE, user |-> NoUser, error |-> credentials_exception]
  ELSE [ok |-> TRUE, user |-> get_user(db, d.payload.sub),
        error |-> credentials_exception]

\* [ok, user, error]: the resolved stored user, or the HTTPException raised
get_current_user(token, key, db, t) ==
  LET d == jwt_decode(token, key, t) IN
  IF ~d.ok
    THEN [ok |-> FALSE, user |-> NoUser, error |-> credentials_exception]
  ELSE IF d.payload.sub = Absent
    THEN [ok |-> FALSE, user |-> NoUser, error |-> credentials_exception]
  ELSE LET user == get_user(db, d.payload.sub) IN
       IF user = NoUser
         THEN [ok |-> FALSE, user |-> NoUser, error |-> credentials_exception]
         ELSE [ok |-> TRUE, user |-> user, error |-> credentials_exception]

Has(permissions, permission) ==
  \E i \in 1..Len(permissions) : permissions[i] = permission

\* mutant: the permission asked for is not compared
check_permission_any(permission, user) == user.permissions # <<>>

\* TRUE when check_permission returns, FALSE when it raises 403
check_permission(permission, user) == Has(user.permissions, permission)

forbidden(permission) ==
  [status |-> HTTP_403_FORBIDDEN,
   detail |-> <<"Missing", permission, "permission">>,
   headers |-> {}]

(***************************************************************************)
(* State machine.                                                          *)
(***************************************************************************)
NoToken == [form |-> "none", payload |-> NoClaims, sig |-> NoSig]
Garbage == [form |-> "garbage", payload |-> NoClaims, sig |-> NoSig]

NoReq == [op |-> "start"]
NoResp == [status |-> 0, detail |-> <<>>, headers |-> {}, body |-> <<>>]
NoMint == [data |-> [sub |-> Absent, permissions |-> <<>>], delta |-> <<>>,
           at |-> 0, to_encode |-> NoClaims, token |-> NoToken]

Init ==
  /\ now = 0
  /\ SECRET_KEY = 1
  /\ users_db = InitUsersDb
  /\ workouts_db = <<>>
  /\ held = NoToken
  /\ minted = NoMint
  /\ req = NoReq
  /\ resp = NoResp
  /\ tasks = <<>>
  /\ running = 0

Idle == req = NoReq

\* the clock advances between exchanges
Tick ==
  /\ Idle
  /\ now < MaxTime
  /\ now' = now + 1
  /\ UNCHANGED <<loop, SECRET_KEY, users_db, workouts_db, held, minted, req, resp>>

\* the process restarts: the module is executed again, with a fresh secret,
\* the static credential table and an empty workout list
Restart ==
  /\ Idle
  /\ SECRET_KEY < MaxKeys
  /\ SECRET_KEY' = SECRET_KEY + 1
  /\ users_db' = InitUsersDb
  /\ workouts_db' = <<>>
  /\ UNCHANGED <<loop, now, held, minted, req, resp>>

\* the response goes out and the exchange is over
Reply ==
  /\ ~Idle
  /\ req' = NoReq
  /\ resp' = NoResp
  /\ UNCHANGED <<loop, now, SECRET_KEY, users_db, workouts_db, held, minted>>

(***************************************************************************)
(* The gate on its own, over a space of typed token strings.               *)
(***************************************************************************)
Permissions == {"READ", "WRITE", "DELETE"}
GateSubs == {"admin", "user", "ghost", Absent}
GatePerms == {<<"READ">>, <<"READ", "WRITE", "DELETE">>}
GateClaims == [sub : GateSubs, permissions : GatePerms, exp : 0..MaxSec]

\* claim sets a payload may have been altered from, one claim at a time
Originals(c) ==
  {[c EXCEPT !.exp = 0], [c EXCEPT !.permissions = <<"READ">>],
   [c EXCEPT !.sub = "user"]} \ {c}

GateTokens ==
  {[form |-> "jws", payload |-> c, sig |-> NoSig] : c \in GateClaims}
  \cup UNION {{[form |-> "jws", payload |-> c, sig |-> HMAC(k, c0)] :
                 k \in Keys, c0 \in {c} \cup Originals(c)} : c \in GateClaims}
  \cup {Garbage}

\* what a handler does before its business logic: Depends(get_current_user),
\* then await check_permission(permission, user).  Status 0: nothing raised.
authorize(token, permission, key, db, t) ==
  LET cu == get_current_user(token, key, db, t) IN
  IF ~cu.ok
    THEN [status |-> cu.error.status, detail |-> cu.error.detail,
          headers |-> cu.error.headers, body |-> <<>>]
  ELSE IF ~check_permission(permission, cu.user)
    THEN [status |-> HTTP_403_FORBIDDEN, detail |-> forbidden(permission).detail,
          headers |-> {}, body |-> <<>>]
  ELSE [status |-> 0, detail |-> <<>>, headers |-> {}, body |-> <<cu.user>>]

Authorize ==
  \E token \in GateTokens, permission \in Permissions :
    /\ Idle
    /\ req' = [op |-> "authorize", token |-> token, permission |-> permission]
    /\ resp' = authorize(token, permission, SECRET_KEY, users_db, now)
    /\ UNCHANGED <<loop, now, SECRET_KEY, users_db, workouts_db, held, minted>>

NextGate == Tick \/ Restart \/ Reply \/ Authorize
SpecGate == Init /\ [][NextGate]_vars

(***************************************************************************)
(* The codec on its own: create_access_token, then jwt.decode.             *)
(***************************************************************************)
MintSubs == {"admin", Absent}
MintPerms == {<<>>, <<"WRITE", "READ">>, <<"READ", "WRITE", "DELETE">>}
MintDeltas ==
  {<<>>, <<0>>, <<1>>, <<TicksPerSec>>,
   <<timedelta_minutes(ACCESS_TOKEN_EXPIRE_MINUTES)>>}

CreateAccessToken ==
  \E sub \in MintSubs, perms \in MintPerms, delta \in MintDeltas :
    LET data == [sub |-> sub, permissions |-> perms] IN
    /\ Idle
    /\ minted' = [data |-> data, delta |-> delta, at |-> now,
                  to_encode |-> to_encode_of(data, delta, now),
                  token |-> create_access_token(data, delta, SECRET_KEY, now)]
    /\ UNCHANGED <<loop, now, SECRET_KEY, users_db, workouts_db, held, req, resp>>

\* jwt.decode(token, SECRET_KEY, algorithms=[ALGORITHM]) on the minted token
Decode ==
  /\ Idle
  /\ minted # NoMint
  /\ req' = [op |-> "decode", token |-> minted.token]
  /\ resp' = LET d == jwt_decode(minted.token, SECRET_KEY, now) IN
             [status |-> IF d.ok THEN 0 ELSE HTTP_401_UNAUTHORIZED,
              detail |-> <<d.error>>, headers |-> {}, body |-> <<d.payload>>]
  /\ UNCHANGED <<loop, now, SECRET_KEY, users_db, workouts_db, held, minted>>

NextCodec == Tick \/ Restart \/ Reply \/ CreateAccessToken \/ Decode
SpecCodec == Init /\ [][NextCodec]_vars

(***************************************************************************)
(* The service: login and the protected handlers.                          *)
(***************************************************************************)
Usernames == {"admin", "user", "ghost"}
Passwords == {"secret", "wrong"}
Names == {"Leg Day", "Push Day"}
Suffixes == {"a", "b"}
ExSuffixes == {"x"}

\* str(n) for a length: the decimal digits of n
RECURSIVE str(_)
str(n) ==
  IF n < 10
    THEN <<"0", "1", "2", "3", "4", "5", "6", "7", "8", "9">>[n + 1]
    ELSE str(n \div 10) \o str(n % 10)

\* f"{len(workouts_db)}_{secrets.token_urlsafe(4)}"
new_workout_id(db, suffix) == str(Len(db)) \o "_" \o suffix

\* mutant: the id is the random suffix alone
new_exercise_id_suffix_only(exercises, suffix) == suffix

\* str(len(workout["exercises"])) + secrets.token_urlsafe(4)
new_exercise_id(exercises, suffix) == str(Len(exercises)) \o suffix

\* the ids a client may address: every id create_workout can assign
IdSpace ==
  {str(n) \o "_" \o suffix : n \in 0..(MaxWorkouts - 1), suffix \in Suffixes}

\* tokens a client can present: the one it holds from a login, that token
\* with its permissions claim rewritten, and no Authorization header at all
Rewritten(token) ==
  [token EXCEPT !.payload.permissions = <<"READ", "WRITE", "DELETE">>]
ClientTokens ==
  {NoToken}
  \cup (IF held = NoToken THEN {} ELSE {held, Rewritten(held)})

\* oauth2_scheme: a request without a bearer token never reaches
\* get_current_user
not_authenticated ==
  [status |-> HTTP_401_UNAUTHORIZED, detail |-> <<"Not authenticated">>,
   headers |-> Bearer, body |-> <<>>]

\* the dependencies and the first statement of every protected handler
gate(token, permission, key, db, t) ==
  IF token = NoToken
    THEN not_authenticated
    ELSE authorize(token, permission, key, db, t)

ok(status, body) ==
  [status |-> status, detail |-> <<>>, headers |-> {}, body |-> body]

not_found ==
  [status |-> HTTP_404_NOT_FOUND, detail |-> <<"Workout not found">>,
   headers |-> {}, body |-> <<>>]

\* index of the first record with this id, 0 when there is none
find(db, workout_id) ==
  IF \E i \in 1..Len(db) : db[i].id = workout_id
    THEN CHOOSE i \in 1..Len(db) :
           /\ db[i].id = workout_id
           /\ \A j \in 1..(i - 1) : db[j].id # workout_id
    ELSE 0

\* db[skip : skip + limit]
slice(db, skip, limit) ==
  LET last == IF skip + limit < Len(db) THEN skip + limit ELSE Len(db) IN
  IF skip >= last THEN <<>> ELSE SubSeq(db, skip + 1, last)

\* db.pop(idx), idx counted from 1
pop(db, idx) == SubSeq(db, 1, idx - 1) \o SubSeq(db, idx + 1, Len(db))

\* mutant: the permissions are left out of the token's data
login_for_access_token_no_permissions(username, password, key, db, t) ==
  LET user == authenticate_user(db, username, password) IN
  IF user = NoUser
    THEN [status |-> HTTP_401_UNAUTHORIZED,
          detail |-> <<"Incorrect username or password">>,
          headers |-> Bearer, body |-> <<>>, auth |-> user]
    ELSE [status |-> HTTP_200_OK, detail |-> <<>>, headers |-> {},
          body |-> <<[access_token |->
                        create_access_token(
                          [sub |-> user.username, permissions |-> <<>>],
                          <<timedelta_minutes(ACCESS_TOKEN_EXPIRE_MINUTES)>>,
                          key, t),
                      token_type |-> "bearer"]>>,
          auth |-> user]

login_for_access_token(username, password, key, db, t) ==
  LET user == authenticate_user(db, username, password) IN
  IF user = NoUser
    THEN [status |-> HTTP_401_UNAUTHORIZED,
          detail |-> <<"Incorrect username or password">>,
          headers |-> Bearer, body |-> <<>>, auth |-> user]
    ELSE [status |-> HTTP_200_OK, detail |-> <<>>, headers |-> {},
          body |-> <<[access_token |->
                        create_access_token(
                          [sub |-> user.username,
                           permissions |-> user.permissions],
                          <<timedelta_minutes(ACCESS_TOKEN_EXPIRE_MINUTES)>>,
                          key, t),
                      token_type |-> "bearer"]>>,
          auth |-> user]

\* the client keeps the token it is given, or goes on with the one it has
Login ==
  \E username \in Usernames, password \in Passwords :
    LET r == login_for_access_token(username, password, SECRET_KEY,
                                    users_db, now) IN
    /\ Idle
    /\ req' = [op |-> "login", username |-> username, password |-> password]
    /\ resp' = r
    /\ held' \in IF r.status # HTTP_200_OK THEN {held}
                 ELSE IF held = NoToken THEN {r.body[1].access_token}
                 ELSE {held, r.body[1].access_token}
    /\ UNCHANGED <<loop, now, SECRET_KEY, users_db, workouts_db, minted>>

ReadWorkouts ==
  \E token \in ClientTokens, page \in {<<0, 10>>, <<1, 1>>} :
    LET g == gate(token, "READ", SECRET_KEY, users_db, now) IN
    /\ Idle
    /\ req' = [op |-> "read_workouts", token |-> token, arg |-> page]
    /\ resp' = IF g.status # 0 THEN g
               ELSE ok(HTTP_200_OK, slice(workouts_db, page[1], page[2]))
    /\ UNCHANGED <<loop, now, SECRET_KEY, users_db, workouts_db, held, minted>>

\* mutant: the record is appended before the permission is checked
CreateWorkoutAppendsFirst ==
  \E token \in ClientTokens, name \in Names, suffix \in Suffixes :
    LET g == gate(token, "WRITE", SECRET_KEY, users_db, now)
        workout_dict == [name |-> name,
                         id |-> new_workout_id(workouts_db, suffix),
                         exercises |-> <<>>]
    IN
    /\ Idle
    /\ Len(workouts_db) < MaxWorkouts
    /\ req' = [op |-> "create_workout", token |-> token, arg |-> name]
    /\ resp' = IF g.status # 0 THEN g
               ELSE ok(HTTP_201_CREATED, <<workout_dict>>)
    /\ workouts_db' = Append(workouts_db, workout_dict)
    /\ UNCHANGED <<loop, now, SECRET_KEY, users_db, held, minted>>

CreateWorkout ==
  \E token \in ClientTokens, name \in Names, suffix \in Suffixes :
    LET g == gate(token, "WRITE", SECRET_KEY, users_db, now)
        workout_dict == [name |-> name,
                         id |-> new_workout_id(workouts_db, suffix),
                         exercises |-> <<>>]
    IN
    /\ Idle
    /\ g.status = 0 => Len(workouts_db) < MaxWorkouts
    /\ req' = [op |-> "create_workout", token |-> token, arg |-> name]
    /\ IF g.status # 0
         THEN /\ resp' = g
              /\ workouts_db' = workouts_db
         ELSE /\ resp' = ok(HTTP_201_CREATED, <<workout_dict>>)
              /\ workouts_db' = Append(workouts_db, workout_dict)
    /\ UNCHANGED <<loop, now, SECRET_KEY, users_db, held, minted>>

\* mutant: the record is looked up before the permission is checked
ReadWorkoutLooksUpFirst ==
  \E token \in ClientTokens, workout_id \in IdSpace :
    LET g == gate(token, "READ", SECRET_KEY, users_db, now)
        idx == find(workouts_db, workout_id)
    IN
    /\ Idle
    /\ req' = [op |-> "read_workout", token |-> token, arg |-> workout_id]
    /\ resp' = IF idx = 0 THEN not_found
               ELSE IF g.status # 0 THEN g
               ELSE ok(HTTP_200_OK, <<workouts_db[idx]>>)
    /\ UNCHANGED <<loop, now, SECRET_KEY, users_db, workouts_db, held, minted>>

ReadWorkout ==
  \E token \in ClientTokens, workout_id \in IdSpace :
    LET g == gate(token, "READ", SECRET_KEY, users_db, now)
        idx == find(workouts_db, workout_id)
    IN
    /\ Idle
    /\ req' = [op |-> "read_workout", token |-> token, arg |-> workout_id]
    /\ resp' = IF g.status # 0 THEN g
               ELSE IF idx = 0 THEN not_found
               ELSE ok(HTTP_200_OK, <<workouts_db[idx]>>)
    /\ UNCHANGED <<loop, now, SECRET_KEY, users_db, workouts_db, held, minted>>

\* mutant: the updated record starts with no exercises
UpdateWorkoutDropsExercises ==
  \E token \in ClientTokens, workout_id \in IdSpace, name \in Names :
    LET g == gate(token, "WRITE", SECRET_KEY, users_db, now)
        idx == find(workouts_db, workout_id)
        updated_workout == [name |-> name, id |-> workout_id,
                            exercises |-> <<>>]
    IN
    /\ Idle
    /\ req' = [op |-> "update_workout", token |-> token,
               arg |-> <<workout_id, name>>]
    /\ IF g.status # 0
         THEN /\ resp' = g
              /\ workouts_db' = workouts_db
         ELSE IF idx = 0
           THEN /\ resp' = not_found
                /\ workouts_db' = workouts_db
           ELSE /\ resp' = ok(HTTP_200_OK, <<updated_workout>>)
                /\ workouts_db' = [workouts_db EXCEPT ![idx] = updated_workout]
    /\ UNCHANGED <<loop, now, SECRET_KEY, users_db, held, minted>>

UpdateWorkout ==
  \E token \in ClientTokens, workout_id \in IdSpace, name \in Names :
    LET g == gate(token, "WRITE", SECRET_KEY, users_db, now)
        idx == find(workouts_db, workout_id)
        updated_workout == [name |-> name, id |-> workout_id,
                            exercises |-> workouts_db[idx].exercises]
    IN
    /\ Idle
    /\ req' = [op |-> "update_workout", token |-> token,
               arg |-> <<workout_id, name>>]
    /\ IF g.status # 0
         THEN /\ resp' = g
              /\ workouts_db' = workouts_db
         ELSE IF idx = 0
           THEN /\ resp' = not_found
                /\ workouts_db' = workouts_db
           ELSE /\ resp' = ok(HTTP_200_OK, <<updated_workout>>)
                /\ workouts_db' = [workouts_db EXCEPT ![idx] = updated_workout]
    /\ UNCHANGED <<loop, now, SECRET_KEY, users_db, held, minted>>

DeleteWorkout ==
  \E token \in ClientTokens, workout_id \in IdSpace :
    LET g == gate(token, "DELETE", SECRET_KEY, users_db, now)
        idx == find(workouts_db, workout_id)
    IN
    /\ Idle
    /\ req' = [op |-> "delete_workout", token |-> token, arg |-> workout_id]
    /\ IF g.status # 0
         THEN /\ resp' = g
              /\ workouts_db' = workouts_db
         ELSE IF idx = 0
           THEN /\ resp' = not_found
                /\ workouts_db' = workouts_db
           ELSE /\ resp' = ok(HTTP_204_NO_CONTENT, <<>>)
                /\ workouts_db' = pop(workouts_db, idx)
    /\ UNCHANGED <<loop, now, SECRET_KEY, users_db, held, minted>>

AddExerciseStep(cap) ==
  \E token \in ClientTokens, workout_id \in IdSpace, suffix \in ExSuffixes :
    LET g == gate(token, "WRITE", SECRET_KEY, users_db, now)
        idx == find(workouts_db, workout_id)
        exercise_dict == [name |-> "Squat",
                          id |-> new_exercise_id(workouts_db[idx].exercises,
                                                 suffix),
                          sets |-> <<>>]
    IN
    /\ Idle
    /\ (g.status = 0 /\ idx # 0) =>
         Len(workouts_db[idx].exercises) < cap
    /\ req' = [op |-> "add_exercise", token |-> token, arg |-> workout_id]
    /\ IF g.status # 0
         THEN /\ resp' = g
              /\ workouts_db' = workouts_db
         ELSE IF idx = 0
           THEN /\ resp' = not_found
                /\ workouts_db' = workouts_db
           ELSE /\ resp' = ok(HTTP_201_CREATED, <<exercise_dict>>)
                /\ workouts_db' =
                     [workouts_db EXCEPT ![idx].exercises =
                        Append(@, exercise_dict)]
    /\ UNCHANGED <<loop, now, SECRET_KEY, users_db, held, minted>>

AddExercise == AddExerciseStep(MaxExercises)

\* more than the lifetime of a login token goes by
Leap ==
  /\ Idle
  /\ now + timedelta_minutes(ACCESS_TOKEN_EXPIRE_MINUTES) + TicksPerSec <= MaxTime
  /\ now' = now + timedelta_minutes(ACCESS_TOKEN_EXPIRE_MINUTES) + TicksPerSec
  /\ UNCHANGED <<loop, SECRET_KEY, users_db, workouts_db, held, minted, req, resp>>

Next ==
  \/ Leap \/ Reply \/ Login
  \/ ReadWorkouts \/ CreateWorkout \/ ReadWorkout
  \/ UpdateWorkout \/ DeleteWorkout \/ AddExercise
Spec == Init /\ [][Next]_vars

\* the life of a token, tick by tick
NextLife == Tick \/ Restart \/ Reply \/ Login \/ ReadWorkouts \/ DeleteWorkout
SpecLife == Init /\ [][NextLife]_vars

(***************************************************************************)
(* The store on its own: records are created, updated and given exercises, *)
(* up to MaxStoreExercises each; the clock stands still and nothing is     *)
(* deleted.                                                                *)
(***************************************************************************)
AddExerciseStore == AddExerciseStep(MaxStoreExercises)

NextStore ==
  \/ Reply
  \/ Login
  \/ CreateWorkout
  \/ UpdateWorkout
  \/ AddExerciseStore

SpecStore == Init /\ [][NextStore]_vars

(***************************************************************************)
(* Concurrent requests.  Each request is a coroutine on the one event      *)
(* loop; the loop runs a coroutine until it suspends or returns and only   *)
(* then picks another.  A mutating handler goes through three positions:   *)
(* "check" (await check_permission), "scan" (find the record, or take the  *)
(* length for a new id) and "write" (assign, pop or append).               *)
(***************************************************************************)
\* the permission a handler asks check_permission for
Required(op) ==
  IF op = "read_workout" THEN "READ"
  ELSE IF op = "delete_workout" THEN "DELETE"
  ELSE "WRITE"

\* mutant: a handler suspends between its scan and its write
SuspensionPointsBeforeWrite(op) == {"write"}

\* The positions at which a handler hands control back to the loop.  The
\* only await of a handler is that of check_permission, a coroutine with
\* no await of its own, which therefore returns without suspending; the
\* scan and the write are plain statements.
SuspensionPoints(op) == {}

\* the store after create_workout twice
ConcStore ==
  <<[name |-> "Leg Day", id |-> new_workout_id(<<>>, "a"),
     exercises |-> <<>>],
    [name |-> "Push Day",
     id |-> new_workout_id(<<[name |-> "Leg Day"]>>, "b"),
     exercises |-> <<>>]>>

ConcIds == {ConcStore[i].id : i \in DOMAIN ConcStore}

\* the token login issues to this user now
TokenOf(username) ==
  login_for_access_token(username, "secret", SECRET_KEY, users_db,
                         now).body[1].access_token

\* a request whose handler has not started
Task(op, username, workout_id, name, suffix) ==
  [op |-> op, token |-> TokenOf(username), arg |-> workout_id,
   name |-> name, suffix |-> suffix,
   pc |-> "check", idx |-> 0, local |-> <<>>, status |-> 0]

ConcRequests ==
  {Task("create_workout", "admin", "", "Leg Day", "a")}
  \cup {Task("update_workout", "admin", id, name, "") :
          id \in ConcIds, name \in Names}
  \cup {Task("delete_workout", "admin", id, "", "") : id \in ConcIds}
  \cup {Task("add_exercise", "admin", id, "Squat", "x") : id \in ConcIds}
  \cup {Task("delete_workout", "user", id, "", "") : id \in ConcIds}

done(task, status) == [task EXCEPT !.pc = "done", !.status = status]

\* one position of a handler, on the store db: the store and the task after
step(db, task) ==
  IF task.pc = "check" THEN
    LET g == gate(task.token, Required(task.op), SECRET_KEY, users_db, now)
    IN [db |-> db,
        task |-> IF g.status # 0 THEN done(task, g.status)
                 ELSE [task EXCEPT !.pc = "scan"]]
  ELSE IF task.pc = "scan" THEN
    IF task.op = "create_workout"
      THEN [db |-> db,
            task |-> [task EXCEPT !.pc = "write",
                                  !.local = new_workout_id(db, task.suffix)]]
      ELSE LET idx == find(db, task.arg) IN
           [db |-> db,
            task |->
              IF idx = 0 THEN done(task, HTTP_404_NOT_FOUND)
              ELSE [task EXCEPT
                      !.pc = "write",
                      !.idx = idx,
                      !.local =
                        IF task.op = "update_workout"
                          THEN db[idx].exercises
                        ELSE IF task.op = "add_exercise"
                          THEN new_exercise_id(db[idx].exercises,
                                               task.suffix)
                        ELSE <<>>]]
  ELSE IF task.op = "create_workout" THEN
    [db |-> Append(db, [name |-> task.name, id |-> task.local,
                        exercises |-> <<>>]),
     task |-> done(task, HTTP_201_CREATED)]
  ELSE IF task.op = "update_workout" THEN
    \* workouts_db[idx] = updated_workout; IndexError past the end
    IF task.idx > Len(db)
      THEN [db |-> db, task |-> done(task, HTTP_500_INTERNAL_SERVER_ERROR)]
      ELSE [db |-> [db EXCEPT ![task.idx] =
                      [name |-> task.name, id |-> task.arg,
                       exercises |-> task.local]],
            task |-> done(task, HTTP_200_OK)]
  ELSE IF task.op = "delete_workout" THEN
    \* workouts_db.pop(idx); IndexError past the end
    IF task.idx > Len(db)
      THEN [db |-> db, task |-> done(task, HTTP_500_INTERNAL_SERVER_ERROR)]
      ELSE [db |-> pop(db, task.idx), task |-> done(task, HTTP_204_NO_CONTENT)]
  ELSE
    \* workout["exercises"].append(exercise_dict): the record found by
    \* the scan, which is the one at idx as long as the list has not moved
    IF task.idx > Len(db)
      THEN [db |-> db, task |-> done(task, HTTP_201_CREATED)]
      ELSE [db |-> [db EXCEPT ![task.idx].exercises =
                      Append(@, [name |-> task.name, id |-> task.local,
                                 sets |-> <<>>])],
            task |-> done(task, HTTP_201_CREATED)]

\* a handler from its current position to its return, nothing in between
RECURSIVE handler(_, _)
handler(db, task) ==
  IF task.pc = "done" THEN [db |-> db, task |-> task]
  ELSE LET r == step(db, task) IN handler(r.db, r.task)

InitConc ==
  /\ now = 0
  /\ SECRET_KEY = 1
  /\ users_db = InitUsersDb
  /\ workouts_db = ConcStore
  /\ held = NoToken
  /\ minted = NoMint
  /\ req = NoReq
  /\ resp = NoResp
  /\ tasks \in [1..MaxConc -> ConcRequests]
  /\ running = 0

\* the loop runs the coroutine of one request of this kind for one position
Run(op) ==
  \E i \in DOMAIN tasks :
    LET r == step(workouts_db, tasks[i]) IN
    /\ tasks[i].op = op
    /\ tasks[i].pc # "done"
    /\ running \in {0, i}
    /\ workouts_db' = r.db
    /\ tasks' = [tasks EXCEPT ![i] = r.task]
    /\ running' = IF \/ r.task.pc = "done"
                     \/ r.task.pc \in SuspensionPoints(op)
                    THEN 0 ELSE i
    /\ UNCHANGED <<now, SECRET_KEY, users_db, held, minted, req, resp>>

RunCreateWorkout == Run("create_workout")
RunUpdateWorkout == Run("update_workout")
RunDeleteWorkout == Run("delete_workout")
RunAddExercise == Run("add_exercise")

NextConc ==
  \/ RunCreateWorkout
  \/ RunUpdateWorkout
  \/ RunDeleteWorkout
  \/ RunAddExercise

SpecConc == InitConc /\ [][NextConc]_vars

(***************************************************************************)
(* Vocabulary of the properties.                                           *)
(***************************************************************************)
\* the token is header.payload signed over exactly its claims with key
ValidlySigned(token, key) ==
  token.form = "jws" /\ token.sig = [key |-> key, over |-> token.payload]

\* the whole second the clock shows at tick t
SecondOf(t) == t \div TicksPerSec

\* the instant, in ticks, of a numeric timestamp
InstantOf(sec) == sec * TicksPerSec

Authorizing == req.op = "authorize"

(***************************************************************************)
(* C1: the gate decides from the stored record, never from the token's     *)
(* permissions claim: for a validly signed, unexpired token whose subject  *)
(* is in the store, a request requiring P gets 403 when P is not in the    *)
(* stored permissions and passes (as the stored user) when it is, whatever *)
(* the token's own permissions list says.                                  *)
(***************************************************************************)
C1_StoreDecides ==
  (/\ Authorizing
   /\ ValidlySigned(req.token, SECRET_KEY)
   /\ req.token.payload.exp >= SecondOf(now)
   /\ req.token.payload.sub \in DOMAIN users_db)
  => LET stored == users_db[req.token.payload.sub] IN
     IF \E i \in DOMAIN stored.permissions :
          stored.permissions[i] = req.permission
       THEN resp.status = 0 /\ resp.body = <<stored>>
       ELSE resp.status = HTTP_403_FORBIDDEN

\* a stale token of "user" that lists WRITE is refused WRITE
C1_Witness ==
  /\ Authorizing
  /\ ValidlySigned(req.token, SECRET_KEY)
  /\ req.token.payload.exp >= SecondOf(now)
  /\ req.token.payload.sub = "user"
  /\ req.token.payload.permissions = <<"READ", "WRITE", "DELETE">>
  /\ req.permission = "WRITE"
  /\ resp.status = HTTP_403_FORBIDDEN

(***************************************************************************)
(* C3: two-tier rejection.  The gate answers 401, with WWW-Authenticate:   *)
(* Bearer, exactly when the token does not decode, carries no sub, or      *)
(* names a subject missing from the store; it answers 403, naming the      *)
(* permission, exactly when the identity was resolved and the stored set   *)
(* lacks the permission.                                                   *)
(***************************************************************************)
IdentityFailure ==
  \/ ~ValidlySigned(req.token, SECRET_KEY)
  \/ req.token.payload.exp < SecondOf(now)
  \/ req.token.payload.sub = Absent
  \/ req.token.payload.sub \notin DOMAIN users_db

PermissionFailure ==
  /\ ~IdentityFailure
  /\ \A i \in DOMAIN users_db[req.token.payload.sub].permissions :
       users_db[req.token.payload.sub].permissions[i] # req.permission

C3_TwoTier ==
  Authorizing =>
    /\ (resp.status = HTTP_401_UNAUTHORIZED) <=> IdentityFailure
    /\ resp.status = HTTP_401_UNAUTHORIZED =>
         <<"WWW-Authenticate", "Bearer">> \in resp.headers
    /\ (resp.status = HTTP_403_FORBIDDEN) <=> PermissionFailure
    /\ resp.status = HTTP_403_FORBIDDEN =>
         resp.detail = <<"Missing", req.permission, "permission">>

\* a validly signed, unexpired token of a subject the store does not have
C3_Witness ==
  /\ Authorizing
  /\ ValidlySigned(req.token, SECRET_KEY)
  /\ req.token.payload.exp >= SecondOf(now)
  /\ req.token.payload.sub = "ghost"
  /\ resp.status = HTTP_401_UNAUTHORIZED

(***************************************************************************)
(* C4: a token not signed over exactly its claims with the current secret  *)
(* is rejected whatever its expiry, so every identity the gate returns is  *)
(* the subject of claims signed with the current SECRET_KEY.               *)
(***************************************************************************)
C4_SignatureRequired ==
  Authorizing =>
    /\ ~ValidlySigned(req.token, SECRET_KEY) =>
         resp.status = HTTP_401_UNAUTHORIZED
    /\ resp.status = 0 =>
         /\ ValidlySigned(req.token, SECRET_KEY)
         /\ resp.body[1].username = req.token.payload.sub

\* claims altered after signing with the current secret, expiry in the future
C4_Witness ==
  /\ Authorizing
  /\ req.token.form = "jws"
  /\ req.token.sig.key = SECRET_KEY
  /\ req.token.sig.over # req.token.payload
  /\ req.token.payload.sub = "admin"
  /\ req.token.payload.exp > SecondOf(now)
  /\ resp.status = HTTP_401_UNAUTHORIZED

(***************************************************************************)
(* C5 as stated: a correctly signed token is rejected at every time at or  *)
(* past its expiry, the instant now = exp included.                        *)
(***************************************************************************)
C5_Original ==
  (/\ Authorizing
   /\ ValidlySigned(req.token, SECRET_KEY)
   /\ now >= InstantOf(req.token.payload.exp))
  => resp.status = HTTP_401_UNAUTHORIZED

(***************************************************************************)
(* C5 as amended: a correctly signed token is rejected at every time whose *)
(* whole second is past its expiry (now >= exp + 1 s); at the instant      *)
(* now = exp, and for the rest of that second, decode still accepts it.    *)
(***************************************************************************)
C5_RejectedPastExpiry ==
  (Authorizing /\ ValidlySigned(req.token, SECRET_KEY)) =>
    /\ SecondOf(now) > req.token.payload.exp =>
         resp.status = HTTP_401_UNAUTHORIZED
    /\ (/\ SecondOf(now) = req.token.payload.exp
        /\ req.token.payload.sub \in DOMAIN users_db) =>
         resp.status # HTTP_401_UNAUTHORIZED

\* a correctly signed token one second past its expiry
C5_Witness ==
  /\ Authorizing
  /\ ValidlySigned(req.token, SECRET_KEY)
  /\ req.token.payload.sub = "admin"
  /\ SecondOf(now) = req.token.payload.exp + 1
  /\ resp.status = HTTP_401_UNAUTHORIZED

(***************************************************************************)
(* C2: every protected operation is gated by its fixed permission.  A step *)
(* changes workouts_db only if it is a create_workout, update_workout or   *)
(* add_exercise request of an identity holding WRITE, or a delete_workout  *)
(* request of an identity holding DELETE; read_workouts and read_workout   *)
(* answer 200 only to identities holding READ; and no request carrying a   *)
(* token of the account "user" changes workouts_db.                        *)
(***************************************************************************)
\* the stored permissions of the identity a token resolves to, <<>> if none
HolderPermissions(token) ==
  IF /\ ValidlySigned(token, SECRET_KEY)
     /\ token.payload.exp >= SecondOf(now)
     /\ token.payload.sub \in DOMAIN users_db
    THEN users_db[token.payload.sub].permissions
    ELSE <<>>

Holds(token, permission) ==
  \E i \in DOMAIN HolderPermissions(token) :
    HolderPermissions(token)[i] = permission

C2_Step ==
  /\ workouts_db' # workouts_db =>
       \/ /\ req'.op \in {"create_workout", "update_workout", "add_exercise"}
          /\ Holds(req'.token, "WRITE")
       \/ /\ req'.op = "delete_workout"
          /\ Holds(req'.token, "DELETE")
  /\ (/\ req'.op \in {"read_workouts", "read_workout"}
      /\ resp'.status = HTTP_200_OK) => Holds(req'.token, "READ")
  /\ (/\ req'.op \in {"create_workout", "update_workout", "add_exercise",
                      "delete_workout"}
      /\ req'.token.payload.sub = "user") => workouts_db' = workouts_db

C2_Gated == [][C2_Step]_vars

\* "user", logged in, asks to delete a stored workout and is refused
C2_Witness ==
  /\ req.op = "delete_workout"
  /\ req.token = held
  /\ req.token.payload.sub = "user"
  /\ workouts_db # <<>>
  /\ req.arg = workouts_db[1].id
  /\ resp.status = HTTP_403_FORBIDDEN

(***************************************************************************)
(* C6: a token issued by login lives until its expiry and dies only by     *)
(* expiry.  While the process has not restarted, a request with the held   *)
(* token resolves its identity at every time up to the expiry timestamp,   *)
(* whatever requests came in between; it is rejected only strictly after.  *)
(***************************************************************************)
C6_LivesUntilExpiry ==
  (/\ req.op \in {"read_workouts", "delete_workout"}
   /\ held # NoToken
   /\ req.token = held
   /\ held.sig.key = SECRET_KEY)
  => /\ now <= InstantOf(held.payload.exp) =>
          /\ resp.status # HTTP_401_UNAUTHORIZED
          /\ req.op = "read_workouts" => resp.status = HTTP_200_OK
     /\ resp.status = HTTP_401_UNAUTHORIZED =>
          now > InstantOf(held.payload.exp)

\* the held token still reads the list at the very instant of its expiry
C6_Witness ==
  /\ req.op = "read_workouts"
  /\ held # NoToken
  /\ req.token = held
  /\ held.sig.key = SECRET_KEY
  /\ now = InstantOf(held.payload.exp)
  /\ resp.status = HTTP_200_OK

(***************************************************************************)
(* C7: for a username of the store with the password that verifies,        *)
(* authenticate_user returns the stored username and permissions, and      *)
(* login returns a "bearer" token whose sub and permissions claims are     *)
(* those.                                                                  *)
(***************************************************************************)
GoodCredentials ==
  /\ req.op = "login"
  /\ req.username \in DOMAIN users_db
  /\ users_db[req.username].hashed_password = <<"$2b$12$", req.password>>

C7_LoginSucceeds ==
  GoodCredentials =>
    /\ resp.auth.username = req.username
    /\ resp.auth.permissions = users_db[req.username].permissions
    /\ resp.status = HTTP_200_OK
    /\ resp.body[1].token_type = "bearer"
    /\ resp.body[1].access_token.payload.sub = req.username
    /\ resp.body[1].access_token.payload.permissions =
         users_db[req.username].permissions

C7_Witness ==
  /\ GoodCredentials
  /\ req.username = "admin"
  /\ resp.status = HTTP_200_OK
  /\ resp.body[1].access_token.payload.permissions =
       <<"READ", "WRITE", "DELETE">>

(***************************************************************************)
(* C8: login fails in one and the same way for an unknown username and for *)
(* a known username with a wrong password: the same value from             *)
(* authenticate_user, the same status, detail and header, and no token.    *)
(***************************************************************************)
LoginFailure ==
  [status |-> HTTP_401_UNAUTHORIZED,
   detail |-> <<"Incorrect username or password">>,
   headers |-> {<<"WWW-Authenticate", "Bearer">>},
   body |-> <<>>,
   auth |-> NoUser]

C8_UniformFailure ==
  (req.op = "login" /\ ~GoodCredentials) => resp = LoginFailure

\* a known username with a wrong password
C8_Witness ==
  /\ req.op = "login"
  /\ req.username = "user"
  /\ req.password = "wrong"
  /\ resp = LoginFailure

(***************************************************************************)
(* C9 as stated: a claim set encoded and then decoded with the same secret *)
(* before its expiry comes back equal to the input.                        *)
(***************************************************************************)
RoundTrip ==
  /\ req.op = "decode"
  /\ req.token = minted.token
  /\ minted.token.sig.key = SECRET_KEY
  /\ now < minted.to_encode.exp

C9_Original ==
  RoundTrip =>
    /\ resp.status = 0
    /\ resp.body[1].sub = minted.to_encode.sub
    /\ resp.body[1].permissions = minted.to_encode.permissions
    /\ InstantOf(resp.body[1].exp) = minted.to_encode.exp

(***************************************************************************)
(* C9 as amended: the round trip returns the subject and the permissions   *)
(* of the input, in the same order, and the input's expiry truncated to    *)
(* the whole second; the expiry comes back equal only when it is a whole   *)
(* number of seconds.                                                      *)
(***************************************************************************)
C9_RoundTripToTheSecond ==
  RoundTrip =>
    /\ resp.status = 0
    /\ resp.body[1].sub = minted.to_encode.sub
    /\ resp.body[1].permissions = minted.to_encode.permissions
    /\ resp.body[1].exp = SecondOf(minted.to_encode.exp)
    /\ InstantOf(resp.body[1].exp) <= minted.to_encode.exp
    /\ minted.to_encode.exp < InstantOf(resp.body[1].exp + 1)

\* an expiry with a fraction of a second, a permissions list out of
\* alphabetical order
C9_Witness ==
  /\ RoundTrip
  /\ minted.to_encode.exp % TicksPerSec # 0
  /\ minted.to_encode.permissions = <<"WRITE", "READ">>
  /\ resp.status = 0
  /\ resp.body[1].permissions = <<"WRITE", "READ">>

(***************************************************************************)
(* C10 as stated: for every ttl >= 0 passed to create_access_token as      *)
(* expires_delta, the exp claim is the issuance time plus that ttl (to the *)
(* whole second the codec keeps); the 15 minute fallback applies only when *)
(* no ttl is passed.                                                       *)
(***************************************************************************)
C10_Original ==
  (minted # NoMint /\ minted.delta # <<>>) =>
    minted.token.payload.exp = SecondOf(minted.at + minted.delta[1])

(***************************************************************************)
(* C11: the signing secret changes only when the process restarts, never   *)
(* on a request or with the clock; the secret of a restart differs from    *)
(* the one the held token was signed with; and a token issued before a     *)
(* restart is rejected with 401 afterwards, unexpired or not.              *)
(***************************************************************************)
C11_Step ==
  /\ (req' # req \/ now' # now) => SECRET_KEY' = SECRET_KEY
  /\ (SECRET_KEY' # SECRET_KEY /\ held # NoToken) =>
       held.sig.key # SECRET_KEY'
  /\ (/\ req' # req
      /\ req'.op \in {"read_workouts", "delete_workout"}
      /\ held # NoToken
      /\ req'.token = held
      /\ held.sig.key # SECRET_KEY)
     => /\ resp'.status = HTTP_401_UNAUTHORIZED
        /\ <<"WWW-Authenticate", "Bearer">> \in resp'.headers

C11_SecretPerProcess == [][C11_Step]_vars

\* a token of "admin" from before the restart, not yet expired, is refused
C11_Witness ==
  /\ req.op = "read_workouts"
  /\ held # NoToken
  /\ req.token = held
  /\ held.payload.sub = "admin"
  /\ held.sig.key # SECRET_KEY
  /\ held.payload.exp > SecondOf(now)
  /\ resp.status = HTTP_401_UNAUTHORIZED

(***************************************************************************)
(* C12: no side effects on a rejection path.  Every request answered 401   *)
(* or 403 (failed login, missing, altered or expired token, missing        *)
(* permission) leaves workouts_db, users_db and SECRET_KEY as they were.   *)
(***************************************************************************)
Rejected(r) == r.status \in {HTTP_401_UNAUTHORIZED, HTTP_403_FORBIDDEN}

C12_Step ==
  (req' # req /\ Rejected(resp')) =>
    /\ workouts_db' = workouts_db
    /\ users_db' = users_db
    /\ SECRET_KEY' = SECRET_KEY

C12_RejectionHasNoEffect == [][C12_Step]_vars

\* a create refused for want of WRITE, with records in the list
C12_Witness ==
  /\ req.op = "create_workout"
  /\ req.token = held
  /\ resp.status = HTTP_403_FORBIDDEN
  /\ Len(workouts_db) = 1

(***************************************************************************)
(* C13: the permission check comes before the business logic.  On          *)
(* read_workout, update_workout, delete_workout and add_exercise a caller  *)
(* whose token resolves no identity gets 401 and a caller whose stored     *)
(* permissions lack the required one gets 403, whether or not the id       *)
(* exists; 404 goes only to a caller that passed the gate.                 *)
(***************************************************************************)
C13_GateBeforeLookup ==
  req.op \in {"read_workout", "update_workout", "delete_workout",
              "add_exercise"} =>
    /\ HolderPermissions(req.token) = <<>> =>
         resp.status = HTTP_401_UNAUTHORIZED
    /\ (/\ HolderPermissions(req.token) # <<>>
        /\ ~Holds(req.token, Required(req.op))) =>
         resp.status = HTTP_403_FORBIDDEN
    /\ resp.status = HTTP_404_NOT_FOUND => Holds(req.token, Required(req.op))

\* "user" asks to update an id that is not stored and is told 403, not 404
C13_Witness ==
  /\ req.op = "update_workout"
  /\ req.token = held
  /\ held.payload.sub = "user"
  /\ \A i \in DOMAIN workouts_db : workouts_db[i].id # req.arg[1]
  /\ workouts_db # <<>>
  /\ resp.status = HTTP_403_FORBIDDEN

(***************************************************************************)
(* C14: uniqueness of workout identifiers.  After any sequence of          *)
(* create_workout, update_workout, delete_workout and add_exercise         *)
(* requests the records of workouts_db have pairwise distinct ids, also    *)
(* when a create follows a delete.                                         *)
(***************************************************************************)
C14_Original ==
  \A i, j \in DOMAIN workouts_db :
    i # j => workouts_db[i].id # workouts_db[j].id

(***************************************************************************)
(* C15: a create_workout by a WRITE holder returns 201 with the record it  *)
(* stored (submitted fields, assigned id, no exercises), appends exactly   *)
(* that record to the end of workouts_db and leaves the earlier records    *)
(* as they were; and read_workout by a READ holder returns a stored        *)
(* record when asked for its id.                                           *)
(***************************************************************************)
C15_Step ==
  /\ (/\ req' # req
      /\ req'.op = "create_workout"
      /\ Holds(req'.token, "WRITE"))
     => /\ resp'.status = HTTP_201_CREATED
        /\ Len(resp'.body) = 1
        /\ resp'.body[1].name = req'.arg
        /\ resp'.body[1].exercises = <<>>
        /\ workouts_db' = Append(workouts_db, resp'.body[1])
  /\ (/\ req' # req
      /\ req'.op = "read_workout"
      /\ Holds(req'.token, "READ"))
     => \A i \in DOMAIN workouts_db :
          workouts_db[i].id = req'.arg =>
            /\ resp'.status = HTTP_200_OK
            /\ resp'.body = <<workouts_db[i]>>

C15_Original == [][C15_Step]_vars

(***************************************************************************)
(* C17: a delete_workout by a DELETE holder on a stored id answers 204 and *)
(* removes exactly the first record with that id, keeping the others in    *)
(* order; on an id that is not stored it answers 404 and changes nothing;  *)
(* and once an id was deleted no record with that id is left, so           *)
(* read_workout, update_workout, delete_workout and add_exercise on it     *)
(* answer 404 until it is created again.                                   *)
(***************************************************************************)
C17_Step ==
  (/\ req' # req
   /\ req'.op = "delete_workout"
   /\ Holds(req'.token, "DELETE"))
  => LET idx == find(workouts_db, req'.arg) IN
     IF idx = 0
       THEN /\ resp'.status = HTTP_404_NOT_FOUND
            /\ workouts_db' = workouts_db
       ELSE /\ resp'.status = HTTP_204_NO_CONTENT
            /\ Len(workouts_db') = Len(workouts_db) - 1
            /\ \A i \in 1..(idx - 1) : workouts_db'[i] = workouts_db[i]
            /\ \A i \in idx..Len(workouts_db') :
                 workouts_db'[i] = workouts_db[i + 1]
            /\ \A i \in DOMAIN workouts_db' : workouts_db'[i].id # req'.arg

C17_Original == [][C17_Step]_vars

(***************************************************************************)
(* C16: update_workout replaces only the body fields of one record.  For a *)
(* WRITE holder and a stored id, the record with that id keeps its id, its *)
(* exercises and its position, takes the submitted name and is returned    *)
(* with 200; the list keeps its length and every other record; for an id   *)
(* that is not stored the answer is 404 and nothing changes.               *)
(***************************************************************************)
C16_Step ==
  (/\ req' # req
   /\ req'.op = "update_workout"
   /\ Holds(req'.token, "WRITE"))
  => IF \A i \in DOMAIN workouts_db : workouts_db[i].id # req'.arg[1]
       THEN /\ resp'.status = HTTP_404_NOT_FOUND
            /\ workouts_db' = workouts_db
       ELSE \E k \in DOMAIN workouts_db :
              /\ workouts_db[k].id = req'.arg[1]
              /\ resp'.status = HTTP_200_OK
              /\ resp'.body = <<workouts_db'[k]>>
              /\ workouts_db' =
                   [workouts_db EXCEPT
                      ![k] = [name |-> req'.arg[2],
                              id |-> workouts_db[k].id,
                              exercises |-> workouts_db[k].exercises]]

C16_UpdateFrame == [][C16_Step]_vars

\* the second of two records, which has an exercise, was just renamed
C16_Witness ==
  /\ req.op = "update_workout"
  /\ resp.status = HTTP_200_OK
  /\ Len(workouts_db) = 2
  /\ workouts_db[2].id = req.arg[1]
  /\ workouts_db[2].name = req.arg[2]
  /\ workouts_db[1].name # req.arg[2]
  /\ workouts_db[2].exercises # <<>>

(***************************************************************************)
(* C18: exercise identifiers are unique within a workout.  After any       *)
(* sequence of add_exercise and update_workout requests the exercises of   *)
(* every workout have pairwise distinct ids; and an add_exercise by a      *)
(* WRITE holder on a stored id appends exactly one exercise with an empty  *)
(* sets list to one workout with that id and changes no other workout.     *)
(***************************************************************************)
DistinctExerciseIds(workout) ==
  \A i, j \in DOMAIN workout.exercises :
    i # j => workout.exercises[i].id # workout.exercises[j].id

C18_Step ==
  /\ \A k \in DOMAIN workouts_db' : DistinctExerciseIds(workouts_db'[k])
  /\ (/\ req' # req
      /\ req'.op = "add_exercise"
      /\ Holds(req'.token, "WRITE")
      /\ \E i \in DOMAIN workouts_db : workouts_db[i].id = req'.arg)
     => /\ resp'.status = HTTP_201_CREATED
        /\ Len(resp'.body) = 1
        /\ resp'.body[1].sets = <<>>
        /\ \E k \in DOMAIN workouts_db :
             /\ workouts_db[k].id = req'.arg
             /\ workouts_db' =
                  [workouts_db EXCEPT
                     ![k].exercises = Append(@, resp'.body[1])]

C18_ExerciseIdsDistinct == [][C18_Step]_vars

\* a second exercise was just added to one of two workouts
C18_Witness ==
  /\ req.op = "add_exercise"
  /\ resp.status = HTTP_201_CREATED
  /\ Len(workouts_db) = 2
  /\ \E k \in DOMAIN workouts_db :
       /\ workouts_db[k].id = req.arg
       /\ Len(workouts_db[k].exercises) = 2
       /\ workouts_db[k].exercises[2] = resp.body[1]

(***************************************************************************)
(* C19: concurrent requests interleave only as whole handlers.  A handler  *)
(* that has started runs to its return before another one moves; once all  *)
(* requests are answered, workouts_db is what running their handlers one   *)
(* after another in some order gives; and update_workout writes only to    *)
(* an index that still holds the first record with the id it looked for.   *)
(***************************************************************************)
Orders ==
  {p \in [DOMAIN tasks -> DOMAIN tasks] :
     \A i, j \in DOMAIN tasks : i # j => p[i] # p[j]}

Fresh(task) ==
  [task EXCEPT !.pc = "check", !.idx = 0, !.local = <<>>, !.status = 0]

RECURSIVE Serial(_, _, _)
Serial(db, p, k) ==
  IF k > Len(tasks) THEN db
  ELSE Serial(handler(db, Fresh(tasks[p[k]])).db, p, k + 1)

AllDone == \A i \in DOMAIN tasks : tasks[i].pc = "done"

Serializable == \E p \in Orders : workouts_db = Serial(ConcStore, p, 1)

====
